---- MODULE Spec2Model ----
(***************************************************************************)
(* A model of assessment.py: the quiz blueprint that grades a submission,  *)
(* appends the record to assessment_results.json and builds the per-class  *)
(* leaderboards from that file.                                            *)
(*                                                                         *)
(* JSON values are tagged records [k, v] so that the number 5 and the      *)
(* string "5" are different values; a JSON object is a function from its   *)
(* keys to such values; a Python dict that is iterated is a sequence in    *)
(* insertion order.                                                        *)
(***************************************************************************)
EXTENDS Integers, Sequences, FiniteSets, TLC

VARIABLES file, session, now, resp, bank, pc, snap

vars == <<file, session, now, resp, bank, pc, snap>>

\* The state of the concurrent requests of SpecConc: where each one stands in
\* its function, and what it has read or returned.
conc == <<pc, snap>>

(***************************************************************************)
(* Bounds of the model.                                                    *)
(***************************************************************************)
\* Longest store the aggregator is given in SpecAgg.
MaxStore == 3

\* datetime.min, as a count of seconds; every other moment used here is later.
DatetimeMin == 0

(***************************************************************************)
(* Python and JSON values.                                                 *)
(***************************************************************************)
S(x) == [k |-> "str", v |-> x]

I(n) == [k |-> "int", v |-> n]

None == [k |-> "null"]

\* The float Infinity, which json.load accepts and json.dump writes.
Inf == [k |-> "inf"]

Digit == <<"0", "1", "2", "3", "4", "5", "6", "7", "8", "9">>

RECURSIVE IntStr(_)
\* str(n) of a non-negative integer.
IntStr(n) == IF n < 10 THEN Digit[n + 1]
             ELSE IntStr(n \div 10) \o Digit[(n % 10) + 1]

\* str(v), also what an f-string renders.
PyStr(v) == CASE v.k = "str" -> v.v
              [] v.k = "int" -> IntStr(v.v)
              [] v.k = "null" -> "None"
              [] v.k = "inf" -> "inf"

Ok(x) == [ok |-> TRUE, val |-> x]

Raise(e) == [ok |-> FALSE, exc |-> e]

\* The integer literals int() accepts among the strings of the model: the
\* decimal rendering of a number, with optional surrounding blanks.
IntLiterals == {[text |-> IntStr(n), val |-> n] : n \in 0..9}
               \cup {[text |-> " " \o IntStr(n), val |-> n] : n \in 0..9}

\* int(v)
PyInt(v) == CASE v.k = "int" -> Ok(v.v)
              [] v.k = "str" ->
                   IF \E l \in IntLiterals : l.text = v.v
                   THEN Ok((CHOOSE l \in IntLiterals : l.text = v.v).val)
                   ELSE Raise("ValueError")
              [] v.k = "null" -> Raise("TypeError")
              [] v.k = "inf" -> Raise("OverflowError")

\* datetime.strftime(t, "%Y-%m-%d %H:%M:%S") of the moment t seconds past
\* 2024-01-01 10:00:00, as a datetime value DatetimeMin + 1 + t.
Strftime(t) == "2024-01-01 10:00:" \o (IF t < 10 THEN "0" ELSE "") \o IntStr(t)

\* The strings strptime accepts among the strings of the model; it also takes
\* fields that are not zero-padded.
TimeLiterals == {[text |-> Strftime(t), val |-> DatetimeMin + 1 + t] : t \in 0..59}
                \cup {[text |-> "2024-1-1 10:00:" \o IntStr(t), val |-> DatetimeMin + 1 + t] : t \in 0..9}
                \cup {[text |-> "0001-01-01 00:00:00", val |-> DatetimeMin]}

\* datetime.strptime(v, "%Y-%m-%d %H:%M:%S")
Strptime(v) == IF v.k # "str" THEN Raise("TypeError")
               ELSE IF \E l \in TimeLiterals : l.text = v.v
                    THEN Ok((CHOOSE l \in TimeLiterals : l.text = v.v).val)
                    ELSE Raise("ValueError")

\* entry.get(key, default)
Get(entry, key, default) == IF key \in DOMAIN entry THEN entry[key] ELSE default

(***************************************************************************)
(* The store file assessment_results.json.  kind is what the file holds:   *)
(*   "missing"  no file          "empty"   a file of size 0                *)
(*   "corrupt"  not JSON         "object"  JSON, but an object with keys   *)
(*   "array"    a JSON array, whose elements are recs                      *)
(* size is the length of the file's text.  Only its order matters, so the  *)
(* text of an array counts 2 for the brackets and, for each record, 10     *)
(* plus the length of its name (the other fields are equally long in every *)
(* record written here).                                                   *)
(***************************************************************************)
RowSize(r) == 10 + Len(PyStr(Get(r, "Name", None)))

RECURSIVE TextLen(_)
\* Length of json.dump(rs, f, indent=4).
TextLen(rs) == IF rs = <<>> THEN 2 ELSE RowSize(Head(rs)) + TextLen(Tail(rs))

Missing == [kind |-> "missing", recs |-> <<>>, size |-> 0]

Array(rs) == [kind |-> "array", recs |-> rs, size |-> TextLen(rs)]

\* An empty file, or a text of `size` characters that is no JSON array.
OtherFile(kd) == [kind |-> kd, recs |-> <<>>, size |-> IF kd = "empty" THEN 0 ELSE 1]

\* The file after the text of the array rs is written from offset 0 with no
\* truncate(): a longer old text keeps its tail, and the file is no JSON then.
Overlay(f, rs) == IF f.size > TextLen(rs)
                  THEN [kind |-> "corrupt", recs |-> <<>>, size |-> f.size]
                  ELSE Array(rs)

(***************************************************************************)
(* get_leaderboard_data                                                    *)
(***************************************************************************)
\* The f-string of line 72.
student_id(entry) == PyStr(Get(entry, "Name", None)) \o "-"
                     \o PyStr(Get(entry, "Register Number", None)) \o "-"
                     \o PyStr(Get(entry, "Class", None))

\* Lines 64-75 on one entry: the score and the parsed timestamp, or the first
\* exception raised (int() at line 68 runs before strptime at line 75).
ParseEntry(entry) ==
    LET score == PyInt(Get(entry, "Score", I(0)))
        ts == Strptime(Get(entry, "Timestamp", None))
    IN  IF ~score.ok THEN score
        ELSE IF ~ts.ok THEN ts
        ELSE Ok([score |-> score.val, timestamp |-> ts.val])

\* The value the defaultdict of line 61 makes for a key read for the first time.
Placeholder(id) == [id |-> id, score |-> -1, timestamp |-> DatetimeMin, data |-> None]

\* Index of the key id in latest (a dict as a sequence in insertion order), or 0.
IndexOf(latest, id) == IF \E i \in 1..Len(latest) : latest[i].id = id
                       THEN CHOOSE i \in 1..Len(latest) : latest[i].id = id
                       ELSE 0

\* The comparison of line 78.
Newer(entry_timestamp, kept_timestamp) == entry_timestamp > kept_timestamp

\* Lines 78-81 for a parsed entry: reading latest_scores[student_id] inserts the
\* placeholder when the key is new; the entry replaces what is kept when newer.
Update(latest, entry, parsed) ==
    LET id == student_id(entry)
        withKey == IF IndexOf(latest, id) = 0 THEN Append(latest, Placeholder(id)) ELSE latest
        i == IndexOf(withKey, id)
    IN  IF Newer(parsed.timestamp, withKey[i].timestamp)
        THEN [withKey EXCEPT ![i] = [id |-> id, score |-> parsed.score,
                                     timestamp |-> parsed.timestamp, data |-> entry]]
        ELSE withKey

\* The exceptions the except clause of line 83 catches.
Caught == {"ValueError", "TypeError", "KeyError"}

RECURSIVE latest_scores(_, _, _)
\* The loop of lines 63-85 from entry i on: the dict, or the exception that
\* escapes the loop.
latest_scores(all_results, i, latest) ==
    IF i > Len(all_results) THEN Ok(latest)
    ELSE LET parsed == ParseEntry(all_results[i])
         IN  IF parsed.ok
             THEN latest_scores(all_results, i + 1, Update(latest, all_results[i], parsed.val))
             ELSE IF parsed.exc \in Caught
                  THEN latest_scores(all_results, i + 1, latest)
                  ELSE parsed

\* Index of class c in a mapping kept as a sequence of [class, rows], or 0.
ClassIndex(board, c) == IF \E i \in 1..Len(board) : board[i].class = c
                        THEN CHOOSE i \in 1..Len(board) : board[i].class = c
                        ELSE 0

\* A bucket key that would keep the type of the label: the number 5 apart
\* from the string "5".
class_num_typed(entry_data) ==
    LET c == Get(entry_data, "Class", None)
    IN  IF c.k = "int" THEN "int:" \o PyStr(c) ELSE PyStr(c)

\* Line 91: the bucket key of a retained record.
class_num(entry_data) == PyStr(Get(entry_data, "Class", None))

RECURSIVE Group(_, _, _)
\* Lines 88-92 from key i on: None.get raises AttributeError.
Group(latest, i, board) ==
    IF i > Len(latest) THEN Ok(board)
    ELSE LET entry_data == latest[i].data
         IN  IF entry_data = None THEN Raise("AttributeError")
             ELSE LET j == ClassIndex(board, class_num(entry_data))
                  IN  Group(latest, i + 1,
                            IF j = 0
                            THEN Append(board, [class |-> class_num(entry_data),
                                                rows |-> <<entry_data>>])
                            ELSE [board EXCEPT ![j].rows = Append(@, entry_data)])

\* The sort key of line 96.
SortKey(x) == PyInt(Get(x, "Score", I(0))).val

\* A sort that is not stable: x goes before the rows of equal key.
InsertAtUnstable(rows, x) == Cardinality({i \in 1..Len(rows) : SortKey(rows[i]) > SortKey(x)})

\* Where a stable descending sort puts x among the sorted rows: after every row
\* whose key is at least its own.
InsertAt(rows, x) == Cardinality({i \in 1..Len(rows) : SortKey(rows[i]) >= SortKey(x)})

Insert(rows, x) == LET n == InsertAt(rows, x)
                   IN  SubSeq(rows, 1, n) \o <<x>> \o SubSeq(rows, n + 1, Len(rows))

RECURSIVE SortDesc(_, _, _)
\* list.sort(key=..., reverse=True) of line 96: stable.
SortDesc(rows, i, sorted) ==
    IF i > Len(rows) THEN sorted
    ELSE SortDesc(rows, i + 1, Insert(sorted, rows[i]))

\* Lines 95-96.
SortAll(board) == [j \in 1..Len(board) |->
                     [class |-> board[j].class, rows |-> SortDesc(board[j].rows, 1, <<>>)]]

\* leaderboards_by_class.get(c, [])
RowsOf(board, c) == IF ClassIndex(board, c) = 0 THEN <<>> ELSE board[ClassIndex(board, c)].rows

\* Lines 59-102 on the loaded array; target_class is None or a string value.
Aggregate(all_results, target_class) ==
    LET latest == latest_scores(all_results, 1, <<>>)
        grouped == IF latest.ok THEN Group(latest.val, 1, <<>>) ELSE latest
    IN  IF ~grouped.ok THEN grouped
        ELSE LET leaderboards_by_class == SortAll(grouped.val)
             IN  IF target_class # None /\ target_class.v # ""
                 THEN Ok(<<[class |-> target_class.v,
                            rows |-> RowsOf(leaderboards_by_class, PyStr(target_class))]>>)
                 ELSE Ok(leaderboards_by_class)

\* get_leaderboard_data(target_class) on the store file f: the mapping returned,
\* as a sequence of [class, rows] in key order, or the exception raised.
get_leaderboard_data(f, target_class) ==
    CASE f.kind = "missing" -> Aggregate(<<>>, target_class)
      [] f.kind \in {"empty", "corrupt"} -> Ok(<<>>)
      [] f.kind = "object" -> Raise("AttributeError")
      [] f.kind = "array" -> Aggregate(f.recs, target_class)

(***************************************************************************)
(* save_assessment_data_locally, run without interruption.                 *)
(***************************************************************************)
\* Lines 27-29: a missing or zero-size file is opened with "w" and initialised
\* to the empty array.
EnsureFile(f) == IF f.kind \in {"missing", "empty"} THEN Array(<<>>) ELSE f

\* The file opened with "w": only the new row is written.
AppendRowOverwriting(f, data_row) ==
    IF f.kind = "array"
    THEN [file |-> Overlay(f, <<data_row>>), saved |-> TRUE]
    ELSE [file |-> f, saved |-> FALSE]

\* The file opened with "w+": it is truncated before it is read.
AppendRowTruncating(f, data_row) == [file |-> OtherFile("empty"), saved |-> FALSE]

\* Lines 31-41 on the file as line 29 left it: json.load raises on a file that
\* is not JSON, append raises on a value that is no list; both are caught.
AppendRow(f, data_row) ==
    IF f.kind = "array"
    THEN [file |-> Overlay(f, Append(f.recs, data_row)), saved |-> TRUE]
    ELSE [file |-> f, saved |-> FALSE]

\* The whole call: the file it leaves and the value it returns.
save_assessment_data_locally(f, data_row) == AppendRow(EnsureFile(f), data_row)

(***************************************************************************)
(* Grading (submit_test, lines 179-192).  Answers are sequences of         *)
(* characters so that strip() and lower() are computed, not assumed.       *)
(***************************************************************************)
Whitespace == {" ", "\t"}

RECURSIVE LStrip(_)
LStrip(s) == IF s # <<>> /\ Head(s) \in Whitespace THEN LStrip(Tail(s)) ELSE s

RECURSIVE RStrip(_)
RStrip(s) == IF s # <<>> /\ s[Len(s)] \in Whitespace
             THEN RStrip(SubSeq(s, 1, Len(s) - 1)) ELSE s

\* str.strip()
Strip(s) == RStrip(LStrip(s))

LowerChar(c) == CASE c = "A" -> "a" [] c = "B" -> "b" [] OTHER -> c

\* str.lower()
Lower(s) == [i \in 1..Len(s) |-> LowerChar(s[i])]

\* The form key of line 184.
FormKey(q_id) == "question_" \o q_id

RECURSIVE correct_answers_dict(_, _, _)
\* Line 180: the dict comprehension over class_questions from question i on; a
\* key that is already there keeps its place and takes the later answer.
correct_answers_dict(class_questions, i, d) ==
    IF i > Len(class_questions) THEN d
    ELSE LET q_id == IntStr(class_questions[i].id)
             ans == class_questions[i].answer
             at == IF \E j \in 1..Len(d) : d[j].id = q_id
                   THEN CHOOSE j \in 1..Len(d) : d[j].id = q_id ELSE 0
         IN  correct_answers_dict(class_questions, i + 1,
                 IF at = 0 THEN Append(d, [id |-> q_id, answer |-> ans])
                 ELSE [d EXCEPT ![at].answer = ans])

\* Line 186.
Attempted(user_answers, q_id) ==
    /\ FormKey(q_id) \in DOMAIN user_answers
    /\ user_answers[FormKey(q_id)] # <<>>
    /\ Strip(user_answers[FormKey(q_id)]) # <<>>

\* Line 188.
Matches(user_ans, correct_ans) == Lower(Strip(user_ans)) = Lower(Strip(correct_ans))

\* The attempt counted in an else branch: only wrong answers count as attempted.
GradeAttemptedElse(class_questions, user_answers) ==
    LET d == correct_answers_dict(class_questions, 1, <<>>)
        tried == {j \in 1..Len(d) : Attempted(user_answers, d[j].id)}
        right == {j \in tried : Matches(user_answers[FormKey(d[j].id)], d[j].answer)}
    IN  [total_questions |-> Len(class_questions),
         questions_attempted |-> Cardinality(tried \ right),
         score |-> Cardinality(right)]

\* Lines 179-189: the tallies of one submission.
Grade(class_questions, user_answers) ==
    LET d == correct_answers_dict(class_questions, 1, <<>>)
        tried == {j \in 1..Len(d) : Attempted(user_answers, d[j].id)}
        right == {j \in tried : Matches(user_answers[FormKey(d[j].id)], d[j].answer)}
    IN  [total_questions |-> Len(class_questions),
         questions_attempted |-> Cardinality(tried),
         score |-> Cardinality(right)]

\* Line 192: f"{(score / total_questions) * 100:.0f}%", which rounds half to even.
score_percentage(score, total_questions) ==
    IF total_questions > 0
    THEN LET q == (100 * score) \div total_questions
             r == (100 * score) % total_questions
             n == IF 2 * r > total_questions \/ (2 * r = total_questions /\ q % 2 = 1)
                  THEN q + 1 ELSE q
         IN  IntStr(n) \o "%"
    ELSE "0%"

\* all_questions_data.get(selected_class, []) of line 174.
ClassQuestions(b, selected_class) ==
    IF \E i \in 1..Len(b.classes) : b.classes[i].class = selected_class
    THEN (b.classes[CHOOSE i \in 1..Len(b.classes) : b.classes[i].class = selected_class]).questions
    ELSE <<>>

\* Lines 197-207.
data_to_save(student_details, timestamp, g) ==
    "Timestamp" :> S(timestamp)
    @@ "Name" :> student_details.name
    @@ "Class" :> student_details.class
    @@ "School" :> student_details.school
    @@ "Register Number" :> student_details.register_number
    @@ "Questions Attempted" :> I(g.questions_attempted)
    @@ "Score" :> I(g.score)
    @@ "Score Percentage" :> S(score_percentage(g.score, g.total_questions))
    @@ "Total Questions" :> I(g.total_questions)

(***************************************************************************)
(* The request handlers.  resp is the last response: the route that ran,   *)
(* where it redirected or what it rendered, the value get_leaderboard_data *)
(* returned to it (None when it was not called) and the request's input.   *)
(***************************************************************************)
Response(route, to, board, input) == [route |-> route, to |-> to, board |-> board, input |-> input]

NoSession == [student_details |-> None, test_results |-> None]

\* Python truthiness of a form value: None and the empty string are false.
Truthy(v) == v # None /\ v # S("")

\* What the handler renders, or the 500 page when the aggregator raised.
Rendered(template, board) == IF board.ok THEN template ELSE "error500"

\* take_assessment, POST (lines 107-115).
TakeAssessment(name, class, register_number) ==
    /\ session' = [session EXCEPT !.student_details =
                       [name |-> name, class |-> class, school |-> S("S"),
                        register_number |-> register_number]]
    /\ resp' = Response("take_assessment", "redirect:show_rules", None, <<>>)
    /\ UNCHANGED <<conc, file, now, bank>>

\* start_test (lines 126-147).
StartTest ==
    /\ resp' = Response("start_test",
                   IF session.student_details = None THEN "redirect:take_assessment"
                   ELSE IF ~Truthy(session.student_details.class) THEN "redirect:take_assessment"
                   ELSE IF bank.kind = "missing" THEN "redirect:home"
                   ELSE "test.html",
                   None, <<>>)
    /\ UNCHANGED <<conc, file, session, now, bank>>

\* "if not class_questions" of line 175: the class has no questions to grade.
NoQuestionsNever(class_questions) == FALSE

NoQuestions(class_questions) == class_questions = <<>>

\* submit_test (lines 151-236) with the form user_answers.
SubmitTest(user_answers) ==
    LET student_details == session.student_details
        selected_class == IF student_details = None THEN None ELSE student_details.class
        class_questions == ClassQuestions(bank, selected_class.v)
        g == Grade(class_questions, user_answers)
        row == data_to_save(student_details, Strftime(now), g)
        saved == save_assessment_data_locally(file, row)
    IN  IF student_details = None \/ ~Truthy(selected_class)
        THEN /\ resp' = Response("submit_test", "redirect:take_assessment", None, user_answers)
             /\ UNCHANGED <<conc, file, session, now, bank>>
        ELSE IF bank.kind = "missing"
        THEN /\ resp' = Response("submit_test", "redirect:start_test", None, user_answers)
             /\ UNCHANGED <<conc, file, session, now, bank>>
        ELSE IF NoQuestions(class_questions)
        THEN /\ resp' = Response("submit_test", "redirect:take_assessment", None, user_answers)
             /\ UNCHANGED <<conc, file, session, now, bank>>
        ELSE /\ file' = saved.file
             /\ session' = IF saved.saved
                           THEN [student_details |-> None,
                                 test_results |->
                                     [score |-> g.score,
                                      total_questions |-> g.total_questions,
                                      score_percentage |-> score_percentage(g.score, g.total_questions),
                                      name |-> student_details.name,
                                      class |-> selected_class]]
                           ELSE [session EXCEPT !.student_details = None]
             /\ resp' = Response("submit_test",
                            IF saved.saved THEN "redirect:thank_you" ELSE "redirect:start_test",
                            None, user_answers)
             /\ UNCHANGED <<conc, now, bank>>

\* A results page that would leave test_results in the session.
ThankYouKeeping ==
    LET results == session.test_results
        leaderboard_data == IF Truthy(results.class)
                            THEN get_leaderboard_data(file, results.class)
                            ELSE Ok(<<>>)
    IN  /\ resp' = IF results # None
                   THEN Response("thank_you", Rendered("thank.html", leaderboard_data),
                                 leaderboard_data, <<>>)
                   ELSE Response("thank_you", "redirect:take_assessment", None, <<>>)
        /\ UNCHANGED <<conc, file, session, now, bank>>

\* thank_you (lines 240-255).
ThankYou ==
    LET results == session.test_results
        leaderboard_data == IF Truthy(results.class)
                            THEN get_leaderboard_data(file, results.class)
                            ELSE Ok(<<>>)
    IN  /\ session' = [session EXCEPT !.test_results = None]
        /\ resp' = IF results # None
                   THEN Response("thank_you", Rendered("thank.html", leaderboard_data),
                                 leaderboard_data, <<>>)
                   ELSE Response("thank_you", "redirect:take_assessment", None, <<>>)
        /\ UNCHANGED <<conc, file, now, bank>>

\* view_leaderboards (lines 259-261).
ViewLeaderboards ==
    LET all_leaderboards == get_leaderboard_data(file, None)
    IN  /\ resp' = Response("view_leaderboards",
                            Rendered("leaderboards_overview.html", all_leaderboards),
                            all_leaderboards, <<>>)
        /\ UNCHANGED <<conc, file, session, now, bank>>

\* class_leaderboard (lines 265-270).
ClassLeaderboard(class_id) ==
    LET leaderboard == get_leaderboard_data(file, S(IntStr(class_id)))
    IN  /\ resp' = Response("class_leaderboard",
                            IF leaderboard.ok /\ leaderboard.val = <<>>
                            THEN "redirect:view_leaderboards"
                            ELSE Rendered("leaderboards_overview.html", leaderboard),
                            leaderboard, [class_id |-> class_id])
        /\ UNCHANGED <<conc, file, session, now, bank>>

\* A dashboard that would empty the store it has read.
TeacherDashboardConsuming ==
    LET all_leaderboards == get_leaderboard_data(file, None)
    IN  /\ resp' = Response("teacher_dashboard",
                            Rendered("teacher_dashboard.html", all_leaderboards),
                            all_leaderboards, <<>>)
        /\ file' = IF file.kind = "array" THEN Array(<<>>) ELSE file
        /\ UNCHANGED <<conc, session, now, bank>>

\* teacher_dashboard (lines 274-276).
TeacherDashboard ==
    LET all_leaderboards == get_leaderboard_data(file, None)
    IN  /\ resp' = Response("teacher_dashboard",
                            Rendered("teacher_dashboard.html", all_leaderboards),
                            all_leaderboards, <<>>)
        /\ UNCHANGED <<conc, file, session, now, bank>>

\* A deletion that would empty the file and leave it in place.
DeleteAllResultsTruncating ==
    /\ file' = IF file.kind # "missing" THEN OtherFile("empty") ELSE file
    /\ resp' = Response("delete_all_results", "redirect:teacher_dashboard", None, <<>>)
    /\ UNCHANGED <<conc, session, now, bank>>

\* delete_all_results (lines 280-297).
DeleteAllResults ==
    /\ file' = IF file.kind # "missing" THEN Missing ELSE file
    /\ resp' = Response("delete_all_results", "redirect:teacher_dashboard", None, <<>>)
    /\ UNCHANGED <<conc, session, now, bank>>

(***************************************************************************)
(* The sequential application: one browser session, one request at a time. *)
(***************************************************************************)
\* The local clock, in seconds, stops at MaxClock.
MaxClock == 1

\* Submissions stop when the store holds MaxRecords records.
MaxRecords == 2

\* The clock moves on between requests.
Tick == /\ now < MaxClock
        /\ now' = now + 1
        /\ UNCHANGED <<conc, file, session, resp, bank>>

Question(id, answer) == [id |-> id, answer |-> answer]

\* test_questions.json: class "5" has two questions, class "7" has none and
\* class "8" is not in the bank.
DefaultBank == [kind |-> "object",
                classes |-> <<[class |-> "5",
                               questions |-> <<Question(1, <<"a">>), Question(2, <<"B", " ">>)>>],
                              [class |-> "7", questions |-> <<>>]>>]

\* test_questions.json cannot be opened.
MissingBank == [kind |-> "missing", classes |-> <<>>]

\* A record of the store as older versions wrote it.
Row(timestamp, name, class, register_number, score) ==
    "Timestamp" :> timestamp @@ "Name" :> name @@ "Class" :> class
    @@ "Register Number" :> register_number @@ "Score" :> score

\* Student "B" of class "5" already has a record stamped with second 0.
LegacyRow == Row(S(Strftime(0)), S("B"), S("5"), S("1"), I(1))

InitFiles == {Missing, OtherFile("empty"), OtherFile("corrupt"), OtherFile("object"),
              Array(<<LegacyRow>>)}

FormNames == {S("A")}

FormClasses == {S("5"), S("7"), S("8"), S("")}

FormRegisterNumbers == {S("1")}

\* The forms a browser posts to /submit: both answers right (up to case and
\* blanks), one right and one wrong, and a single blank answer.
SpecForms == {"question_1" :> <<" ", "A">> @@ "question_2" :> <<"b">>,
              "question_1" :> <<"a">> @@ "question_2" :> <<"a">>,
              "question_1" :> <<" ">>}

ClassIds == {5, 7}

NoResponse == Response("none", "none", None, <<>>)

Init == /\ file \in InitFiles
        /\ session = NoSession
        /\ now = 0
        /\ resp = NoResponse
        /\ pc = <<>>
        /\ snap = <<>>
        /\ bank = DefaultBank

Next == \/ \E name \in FormNames, class \in FormClasses, reg \in FormRegisterNumbers :
               TakeAssessment(name, class, reg)
        \/ StartTest
        \/ (Len(file.recs) < MaxRecords /\ \E user_answers \in SpecForms : SubmitTest(user_answers))
        \/ ThankYou
        \/ ViewLeaderboards
        \/ \E class_id \in ClassIds : ClassLeaderboard(class_id)
        \/ TeacherDashboard
        \/ DeleteAllResults
        \/ Tick

Spec == Init /\ [][Next]_vars

(***************************************************************************)
(* The aggregator as a function of the store: every store of at most       *)
(* MaxStore records drawn from AggRecords, read by the leaderboard routes. *)
(***************************************************************************)
\* Well-formed records of class "5".  Students "A-1"/"2" and "A"/"1-2" render
\* to the same student_id; student "B"/"2" has two records of second 0.
WellFormedRows == {Row(S(Strftime(0)), S("A-1"), S("5"), S("2"), I(1)),
                   Row(S(Strftime(1)), S("A-1"), S("5"), S("2"), I(2)),
                   Row(S(Strftime(0)), S("A"), S("5"), S("1-2"), I(2)),
                   Row(S(Strftime(0)), S("B"), S("5"), S("2"), I(1)),
                   Row(S(Strftime(0)), S("B"), S("5"), S("2"), I(2)),
                   Row(S(Strftime(1)), S("B"), S("5"), S("2"), I(2)),
                   Row(S(Strftime(0)), S("C"), S("5"), S("3"), I(1))}

\* Records of student "B"/"2" with unusual fields: a numeric class with a
\* timestamp that is not zero-padded and a score in a string, the earliest
\* datetime, a timestamp and scores that do not parse, class "6", no Score.
OddRows == {Row(S("2024-1-1 10:00:1"), S("B"), I(5), S("2"), S(" 2")),
            Row(S("0001-01-01 00:00:00"), S("B"), S("5"), S("2"), I(1)),
            Row(S("yesterday"), S("B"), S("5"), S("2"), I(2)),
            Row(S(Strftime(1)), S("B"), S("5"), S("2"), None),
            Row(S(Strftime(1)), S("B"), S("5"), S("2"), Inf),
            Row(S(Strftime(1)), S("B"), S("6"), S("2"), I(2)),
            "Timestamp" :> S(Strftime(1)) @@ "Name" :> S("B") @@ "Class" :> S("5")
                @@ "Register Number" :> S("2")}

AggRecords == WellFormedRows \cup OddRows

\* Every sequence of at most n elements of the set xs.
SeqsUpTo(xs, n) == UNION {[1..m -> xs] : m \in 0..n}

InitAgg == /\ file \in {Array(rs) : rs \in SeqsUpTo(AggRecords, MaxStore)}
                   \cup {Missing, OtherFile("empty"), OtherFile("corrupt"), OtherFile("object")}
           /\ session = NoSession
           /\ now = 0
           /\ resp = NoResponse
           /\ pc = <<>>
           /\ snap = <<>>
           /\ bank = DefaultBank

NextAgg == \/ ViewLeaderboards
           \/ \E class_id \in ClassIds : ClassLeaderboard(class_id)

SpecAgg == InitAgg /\ [][NextAgg]_vars

(***************************************************************************)
(* Properties of the aggregator (SpecAgg).  The store never changes in     *)
(* SpecAgg, so resp.board is what get_leaderboard_data returns for file.   *)
(***************************************************************************)
\* A record whose score and timestamp both parse.
WellFormed(r) == ParseEntry(r).ok

\* The student identity of a record: name, register number and class label.
Identity(r) == <<Get(r, "Name", None), Get(r, "Register Number", None),
                 PyStr(Get(r, "Class", None))>>

\* The parsed timestamp of a well-formed record.
TimestampOf(r) == ParseEntry(r).val.timestamp

\* Among the well-formed records of recs with r's identity, the first one in
\* store order that carries the latest timestamp.
LatestOf(recs, r) ==
    LET same == {j \in 1..Len(recs) : WellFormed(recs[j]) /\ Identity(recs[j]) = Identity(r)}
        best == {j \in same : \A m \in same : TimestampOf(recs[j]) >= TimestampOf(recs[m])}
    IN  recs[CHOOSE j \in best : \A m \in best : j <= m]

\* The store holds records, all of them well-formed, and /leaderboards was read.
AllWellFormedRead ==
    /\ resp.route = "view_leaderboards"
    /\ file.kind = "array"
    /\ \A i \in 1..Len(file.recs) : WellFormed(file.recs[i])

\* C1: for any store of well-formed records the leaderboard of each class holds
\* exactly one record per student identity (name, register number, class): the
\* first record in store order among those of the identity with the latest
\* timestamp.
C1_OneLatestRecordPerIdentity ==
    AllWellFormedRead =>
        /\ resp.board.ok
        /\ \A i \in 1..Len(file.recs) :
              LET r == file.recs[i]
                  rows == RowsOf(resp.board.val, PyStr(Get(r, "Class", None)))
                  mine == {p \in 1..Len(rows) : Identity(rows[p]) = Identity(r)}
              IN  /\ Cardinality(mine) = 1
                  /\ \A p \in mine : rows[p] = LatestOf(file.recs, r)

\* The store with its malformed records removed.
WithoutMalformed(f) == Array(SelectSeq(f.recs, WellFormed))

\* C2: for any store, get_leaderboard_data raises no error and returns what it
\* returns for the same store with the malformed records removed.
C2_MalformedSkipped ==
    (resp.route = "view_leaderboards" /\ file.kind = "array") =>
        /\ resp.board.ok
        /\ resp.board = get_leaderboard_data(WithoutMalformed(file), None)

\* C3: the mapping a read with a target class returns has exactly one key, the
\* target, whose value is the ranked sequence of that class, whatever the
\* store file holds.
C3_TargetKeyPresent ==
    (resp.route = "class_leaderboard" /\ resp.board.ok) =>
        /\ Len(resp.board.val) = 1
        /\ resp.board.val[1].class = IntStr(resp.input.class_id)
        /\ LET all == get_leaderboard_data(file, None)
           IN  all.ok => resp.board.val[1].rows = RowsOf(all.val, IntStr(resp.input.class_id))

\* Position in the store of the first well-formed record with the student_id id.
FirstSeen(id) ==
    CHOOSE i \in 1..Len(file.recs) :
        /\ WellFormed(file.recs[i]) /\ student_id(file.recs[i]) = id
        /\ \A j \in 1..(i - 1) : ~(WellFormed(file.recs[j]) /\ student_id(file.recs[j]) = id)

\* C4: in every class sequence returned, scores do not increase, and records
\* of equal score stand in the order in which their student_id was first seen
\* in the store.
C4_SortedDescendingStable ==
    (resp.board # None /\ resp.board.ok) =>
        \A c \in 1..Len(resp.board.val) :
            LET rows == resp.board.val[c].rows
            IN  \A p, q \in 1..Len(rows) :
                    p < q =>
                        /\ SortKey(rows[p]) >= SortKey(rows[q])
                        /\ SortKey(rows[p]) = SortKey(rows[q]) =>
                               FirstSeen(student_id(rows[p])) < FirstSeen(student_id(rows[q]))

\* A class sequence of three students in which the sort moved the student seen
\* last to the top and left the two of equal score in the order they were seen.
C4_Witness ==
    /\ resp.board # None /\ resp.board.ok
    /\ \E c \in 1..Len(resp.board.val) :
           LET rows == resp.board.val[c].rows
           IN  /\ Len(rows) = 3
               /\ SortKey(rows[1]) > SortKey(rows[2])
               /\ SortKey(rows[2]) = SortKey(rows[3])
               /\ FirstSeen(student_id(rows[1])) > FirstSeen(student_id(rows[3]))

\* /leaderboards was read from a store of records and returned a mapping.
ReadReturned ==
    /\ resp.route = "view_leaderboards"
    /\ file.kind = "array"
    /\ resp.board.ok

\* C14: whenever the read returns, every well-formed record's identity (name,
\* register number, class label) has a record of its own in the leaderboard
\* of its class, so two records that differ in one of the three are never
\* merged into one student.
C14_IdentitiesKeptApart ==
    ReadReturned =>
        \A i \in 1..Len(file.recs) :
            LET r == file.recs[i]
                rows == RowsOf(resp.board.val, PyStr(Get(r, "Class", None)))
            IN  WellFormed(r) => \E p \in 1..Len(rows) : Identity(rows[p]) = Identity(r)

\* C18: every record returned under class key c has the label c once its
\* Class is rendered as a string, no two keys are the same label, and records
\* of one name and register number whose Class is the number 5 or the
\* string "5" are one student, with one record in the one bucket "5".
C18_ClassesBucketedByString ==
    ((resp.route \in {"view_leaderboards", "class_leaderboard"}) /\ resp.board.ok) =>
        LET val == resp.board.val
        IN  /\ \A k \in 1..Len(val) : \A p \in 1..Len(val[k].rows) :
                   PyStr(Get(val[k].rows[p], "Class", None)) = val[k].class
            /\ \A k, m \in 1..Len(val) : val[k].class = val[m].class => k = m
            /\ \A k \in 1..Len(val) : \A p, q \in 1..Len(val[k].rows) :
                   Identity(val[k].rows[p]) = Identity(val[k].rows[q]) => p = q

\* The store holds records of one student under class 5 and class "5"; the
\* bucket "5" ranks one of them next to a record of another student, one
\* carrying the number and one the string.
C18_Witness ==
    /\ ReadReturned
    /\ \E i, j \in 1..Len(file.recs) :
           /\ Get(file.recs[i], "Class", None) = I(5)
           /\ Get(file.recs[j], "Class", None) = S("5")
           /\ Identity(file.recs[i]) = Identity(file.recs[j])
    /\ Len(resp.board.val) = 1
    /\ LET rows == RowsOf(resp.board.val, "5")
       IN  /\ Len(rows) = 2
           /\ \E p, q \in 1..2 : /\ Get(rows[p], "Class", None) = I(5)
                                  /\ Get(rows[q], "Class", None) = S("5")

\* C19: when the loop over the store has ended, every entry of latest_scores
\* holds a record of the store, whatever the store (a record of the
\* earliest datetime included), and the grouping that follows raises nothing.
C19_PlaceholderNeverGrouped ==
    (resp.route = "view_leaderboards" /\ file.kind = "array") =>
        LET latest == latest_scores(file.recs, 1, <<>>)
        IN  latest.ok =>
                /\ \A i \in 1..Len(latest.val) :
                       /\ latest.val[i].data # None
                       /\ \E j \in 1..Len(file.recs) : latest.val[i].data = file.recs[j]
                /\ resp.board.ok

(***************************************************************************)
(* The grader as a function of the question set and the form: a student of *)
(* class "5" has entered details, the bank holds any sequence of at most   *)
(* MaxQuestions questions for the class, and any form is submitted.        *)
(***************************************************************************)
MaxQuestions == 2

GradeQuestions == {Question(id, answer) : id \in {1, 2}, answer \in {<<"a">>, <<"B", " ">>}}

GradeBank(qs) == [kind |-> "object", classes |-> <<[class |-> "5", questions |-> qs]>>]

\* What a form holds under one key: an answer, possibly empty or blank.
AnswerTexts == {<<>>, <<" ">>, <<" ", "A">>, <<"b">>}

GradeKeys == {"question_1", "question_2"}

GradeForms == UNION {[keys -> AnswerTexts] : keys \in SUBSET GradeKeys}

GradeStudent == [name |-> S("A"), class |-> S("5"), school |-> S("S"), register_number |-> S("1")]

InitGrade == /\ file \in {Missing, OtherFile("corrupt")}
             /\ session = [student_details |-> GradeStudent, test_results |-> None]
             /\ now = 0
             /\ resp = NoResponse
             /\ pc = <<>>
             /\ snap = <<>>
             /\ bank \in {GradeBank(qs) : qs \in SeqsUpTo(GradeQuestions, MaxQuestions)}
                         \cup {MissingBank}

NextGrade == \E user_answers \in GradeForms : SubmitTest(user_answers)

SpecGrade == InitGrade /\ [][NextGrade]_vars

\* The integer in field key of a record.
Field(r, key) == r[key].v

\* C5: every record submit_test has appended carries the size N of the class's
\* question set as Total Questions, Questions Attempted <= N and
\* Score <= Questions Attempted.  (In SpecGrade the store starts without
\* records, so every record in it was appended by submit_test.)
C5_TalliesBounded ==
    \A i \in 1..Len(file.recs) :
        LET r == file.recs[i]
        IN  /\ Field(r, "Total Questions") = Len(ClassQuestions(bank, "5"))
            /\ Field(r, "Questions Attempted") <= Field(r, "Total Questions")
            /\ Field(r, "Score") <= Field(r, "Questions Attempted")
            /\ Field(r, "Score") >= 0

\* A record with a wrong answer and an unanswered question.
C5_Witness ==
    \E i \in 1..Len(file.recs) :
        /\ Field(file.recs[i], "Score") < Field(file.recs[i], "Questions Attempted")
        /\ Field(file.recs[i], "Questions Attempted") < Field(file.recs[i], "Total Questions")

\* Question i of qs counts as attempted under the form: the answer posted
\* under question_<id> is there and is not empty after trimming.
QuestionAttempted(qs, form, i) ==
    LET key == "question_" \o IntStr(qs[i].id)
    IN  key \in DOMAIN form /\ Strip(form[key]) # <<>>

\* Question i of qs counts as correct: attempted, and the trimmed, case-folded
\* answer equals the trimmed, case-folded stored answer of that question.
QuestionCorrect(qs, form, i) ==
    /\ QuestionAttempted(qs, form, i)
    /\ Lower(Strip(form["question_" \o IntStr(qs[i].id)])) = Lower(Strip(qs[i].answer))

\* C6: the record of a submission counts the questions of the class sequence
\* one by one: Questions Attempted is the number of questions attempted and
\* Score the number of questions correct, also when two questions share an id.
C6_CountsPerQuestion ==
    (resp.route = "submit_test" /\ resp.to = "redirect:thank_you") =>
        LET qs == ClassQuestions(bank, "5")
            r == file.recs[Len(file.recs)]
        IN  /\ Field(r, "Questions Attempted")
                   = Cardinality({i \in 1..Len(qs) : QuestionAttempted(qs, resp.input, i)})
            /\ Field(r, "Score")
                   = Cardinality({i \in 1..Len(qs) : QuestionCorrect(qs, resp.input, i)})

(***************************************************************************)
(* Properties of the sequential application (Spec).                        *)
(***************************************************************************)
\* A step of submit_test.
SubmitStep == \E user_answers \in SpecForms : SubmitTest(user_answers)

\* A step of delete_all_results.
DeleteStep == DeleteAllResults

\* The records of file' are those of file followed by exactly one record.
OneAppended == /\ file'.kind = "array"
               /\ Len(file'.recs) = Len(file.recs) + 1
               /\ SubSeq(file'.recs, 1, Len(file.recs)) = file.recs

\* C7: the store is append-only.  A successful submit_test leaves the previous
\* records followed by the one new record; a step that is no deletion leaves
\* every record in place, unchanged; and a step that is neither a submission
\* nor a deletion does not touch the store file.
C7_AppendOnly ==
    [][/\ (SubmitStep /\ resp'.to = "redirect:thank_you") => OneAppended
       /\ ~DeleteStep =>
              /\ Len(file'.recs) >= Len(file.recs)
              /\ SubSeq(file'.recs, 1, Len(file.recs)) = file.recs
       /\ ~(SubmitStep \/ DeleteStep) => file' = file]_vars

\* A submission was appended after the record the store already held.
C7_Witness ==
    /\ resp.route = "submit_test" /\ resp.to = "redirect:thank_you"
    /\ Len(file.recs) = 2
    /\ file.recs[1] = LegacyRow
    /\ file.recs[2]["Name"] = S("A")

\* C10: a submit_test whose save fails leaves the store file as it was and
\* sets no test_results; test_results is set only by a step that appends the
\* record, and it describes that record.
C10_FailedSaveLeavesStore ==
    [][SubmitStep =>
          /\ resp'.to = "redirect:start_test" =>
                 /\ file' = file
                 /\ session'.test_results = session.test_results
          /\ session'.test_results # session.test_results =>
                 /\ OneAppended
                 /\ session'.test_results.name = file'.recs[Len(file'.recs)]["Name"]
                 /\ session'.test_results.score = Field(file'.recs[Len(file'.recs)], "Score")
          /\ resp'.to = "redirect:thank_you" =>
                 /\ OneAppended
                 /\ session'.test_results # None]_vars

\* A submission has failed on an unreadable store, which is still as it was.
C10_Witness ==
    /\ resp.route = "submit_test" /\ resp.to = "redirect:start_test"
    /\ file.kind \in {"corrupt", "object"}
    /\ session = NoSession

\* The student details in the session name a class for which the bank, which
\* can be read, has an empty question set or no entry at all.
NoQuestionsForClass ==
    /\ session.student_details # None
    /\ Truthy(session.student_details.class)
    /\ bank.kind = "object"
    /\ ClassQuestions(bank, session.student_details.class.v) = <<>>

\* C11: a submission for a class whose question set is empty or absent is
\* answered as "no questions for this class" (a redirect to the details form)
\* and touches neither the store nor the session; no step appends a record
\* whose Total Questions is 0; and the percentage of a total of 0 is "0%",
\* whatever the score, so nothing is divided by zero.
C11_DivisionGuard ==
    /\ \A score \in 0..MaxQuestions : score_percentage(score, 0) = "0%"
    /\ [][/\ (SubmitStep /\ NoQuestionsForClass) =>
                 /\ resp'.to = "redirect:take_assessment"
                 /\ file' = file
                 /\ session' = session
          /\ (file'.kind = "array" /\ Len(file'.recs) > Len(file.recs)) =>
                 Field(file'.recs[Len(file'.recs)], "Total Questions") > 0]_vars

\* A student of class "7", whose question set is empty, has submitted a form.
C11_Witness ==
    /\ resp.route = "submit_test" /\ resp.to = "redirect:take_assessment"
    /\ NoQuestionsForClass
    /\ session.student_details.class = S("7")
    /\ "question_1" \in DOMAIN resp.input

\* A step that serves /leaderboards or /teacher_dashboard: get_leaderboard_data().
ReadAllStep == /\ resp'.route \in {"view_leaderboards", "teacher_dashboard"}
               /\ (ViewLeaderboards \/ TeacherDashboard)

\* A step that serves /leaderboard/<c>: get_leaderboard_data(target_class=str(c)).
ReadClassStep(c) == /\ resp'.route = "class_leaderboard"
                    /\ ClassLeaderboard(c)

\* A step that serves /thank_you.
ThankYouStep == /\ resp'.route = "thank_you"
                /\ ThankYou

\* The last response carries what get_leaderboard_data(target_class=str(c)) returned.
LastReadOfClass(c) ==
    /\ resp.route \in {"thank_you", "class_leaderboard"}
    /\ resp.board # None
    /\ resp.board.ok
    /\ Len(resp.board.val) = 1
    /\ resp.board.val[1].class = IntStr(c)

\* C12: a step that calls get_leaderboard_data leaves the store file as it is,
\* and the session too (thank_you itself removes test_results, nothing else);
\* and a call that follows a call with the same target, with no submission
\* or deletion in between, returns the same mapping: same keys, same records,
\* same order.
C12_AggregationPureRead ==
    [][/\ (ReadAllStep \/ \E c \in ClassIds : ReadClassStep(c)) =>
              /\ file' = file
              /\ session' = session
       /\ ThankYouStep =>
              /\ file' = file
              /\ session'.student_details = session.student_details
       /\ (resp.route \in {"view_leaderboards", "teacher_dashboard"} /\ ReadAllStep) =>
              resp'.board = resp.board
       /\ \A c \in ClassIds : (LastReadOfClass(c) /\ ReadClassStep(c)) =>
              resp'.board = resp.board]_vars

\* The dashboard shows a leaderboard of two students while a student's
\* details wait in the session.
C12_Witness ==
    /\ resp.route = "teacher_dashboard"
    /\ resp.board.ok
    /\ Len(RowsOf(resp.board.val, "5")) = 2
    /\ session.student_details # None

\* The store write of a submit_test step failed: the request got as far as
\* the save, and the save returned False.
SaveFailed ==
    /\ session.student_details # None
    /\ Truthy(session.student_details.class)
    /\ bank.kind = "object"
    /\ ~NoQuestionsForClass
    /\ resp'.to = "redirect:start_test"

\* C13: a submit_test whose store write fails keeps the student's details in
\* the session, so that the test page it redirects to is served and the
\* student can submit again.
C13_FailedSaveKeepsDetails ==
    [][(SubmitStep /\ SaveFailed) =>
           /\ session'.student_details = session.student_details
           /\ session'.student_details # None]_vars

\* The step serves /thank_you right after a submit_test that saved its record.
ThankYouAfterSubmit ==
    /\ resp.route = "submit_test"
    /\ resp.to = "redirect:thank_you"
    /\ ThankYouStep

\* C15: the leaderboard thank_you computes right after a successful submission
\* ranks the record just appended as the student's one entry, also when the
\* store already holds a record of the student stamped with the same second.
C15_JustAppendedRanked ==
    [][ThankYouAfterSubmit =>
           LET r == file.recs[Len(file.recs)]
               rows == RowsOf(resp'.board.val, PyStr(r["Class"]))
               mine == {p \in 1..Len(rows) : Identity(rows[p]) = Identity(r)}
           IN  /\ resp'.board.ok
               /\ Cardinality(mine) = 1
               /\ \A p \in mine : rows[p] = r]_vars

\* What a read returns for a store without records: for /leaderboards and the
\* dashboard the empty mapping, for a target class its key with no rows.
NoRecords(target_class) == IF target_class = None THEN Ok(<<>>)
                           ELSE Ok(<<[class |-> target_class.v, rows |-> <<>>]>>)

\* C16: delete_all_results leaves no store file.  While there is none, every
\* leaderboard read returns no records and only a successful submit_test
\* changes the store, which then holds exactly the one record of that
\* submission.
C16_DeleteThenEmpty ==
    [][/\ DeleteStep => file' = Missing
       /\ file = Missing =>
              /\ ReadAllStep => resp'.board = NoRecords(None)
              /\ \A c \in ClassIds : ReadClassStep(c) => resp'.board = NoRecords(S(IntStr(c)))
              /\ (session.test_results # None /\ ThankYouStep) =>
                     resp'.board = NoRecords(session.test_results.class)
              /\ file' # file => (SubmitStep /\ resp'.to = "redirect:thank_you")
              /\ (SubmitStep /\ resp'.to = "redirect:thank_you") =>
                     /\ file'.kind = "array"
                     /\ Len(file'.recs) = 1
                     /\ file'.recs[1]["Name"] = session.student_details.name
                     /\ file'.recs[1]["Timestamp"] = S(Strftime(now))]_vars

\* The results of a saved submission wait in the session, the store has been
\* deleted since, and the leaderboard of class 5 was read: no rows.
C16_Witness ==
    /\ file = Missing
    /\ session.test_results # None
    /\ resp.route = "class_leaderboard"
    /\ resp.board = NoRecords(S("5"))

\* C17: only take_assessment puts student details into the session; a
\* submit_test that appends a record takes them out, and a submit_test that
\* finds none appends nothing and redirects to the details form; only a
\* submit_test that appends puts test_results into the session; thank_you
\* shows results only when it finds them, and takes them out.
C17_OneRecordPerDetails ==
    [][/\ (session.student_details = None /\ session'.student_details # None) =>
              \E name \in FormNames, class \in FormClasses, reg \in FormRegisterNumbers :
                  TakeAssessment(name, class, reg)
       /\ file'.recs # file.recs /\ ~DeleteStep =>
              /\ SubmitStep
              /\ session.student_details # None
              /\ session'.student_details = None
              /\ Len(file'.recs) = Len(file.recs) + 1
       /\ (SubmitStep /\ session.student_details = None) =>
              /\ file' = file
              /\ session' = session
              /\ resp'.to = "redirect:take_assessment"
       /\ (session.test_results = None /\ session'.test_results # None) =>
              (SubmitStep /\ Len(file'.recs) = Len(file.recs) + 1)
       /\ (ThankYouStep /\ resp'.to # "redirect:take_assessment") =>
              /\ session.test_results # None
              /\ session'.test_results = None
       /\ (ThankYouStep /\ session.test_results = None) =>
              resp'.to = "redirect:take_assessment"]_vars

\* A second submit_test without new details: the first one saved its record
\* (its results still wait in the session), the second was sent to the form.
C17_Witness ==
    /\ resp.route = "submit_test" /\ resp.to = "redirect:take_assessment"
    /\ session.student_details = None
    /\ session.test_results # None
    /\ Len(file.recs) = 1

(***************************************************************************)
(* Concurrent requests (SpecConc): two submissions run                     *)
(* save_assessment_data_locally and one request reads the leaderboards,    *)
(* each a thread of the server, interleaved at their file operations.      *)
(* pc[p] is the line the request p stands before; snap[p] is what it read. *)
(***************************************************************************)
Writers == {"w1", "w2"}

Reader == "r"

\* The record each submission saves; the two names differ in length.
ConcStudent(w) == [name |-> IF w = "w1" THEN S("A") ELSE S("Bob"),
                   class |-> S("5"), school |-> S("S"), register_number |-> S("1")]

ConcRow(w) == data_to_save(ConcStudent(w), Strftime(0),
                           [total_questions |-> 2, questions_attempted |-> 1, score |-> 1])

\* Line 27: os.path.exists and os.path.getsize.
WCheck(w) ==
    /\ pc[w] = "check"
    /\ pc' = [pc EXCEPT ![w] = IF file.kind = "missing" \/ file.size = 0
                               THEN "init_open" ELSE "open"]
    /\ UNCHANGED <<file, session, now, resp, bank, snap>>

\* Line 28: open(path, "w") creates the file or truncates it.
WInitOpen(w) ==
    /\ pc[w] = "init_open"
    /\ file' = OtherFile("empty")
    /\ pc' = [pc EXCEPT ![w] = "init_write"]
    /\ UNCHANGED <<session, now, resp, bank, snap>>

\* Line 29 and the close of the with block: "[]" is written at offset 0.
WInitWrite(w) ==
    /\ pc[w] = "init_write"
    /\ file' = Overlay(file, <<>>)
    /\ pc' = [pc EXCEPT ![w] = "open"]
    /\ UNCHANGED <<session, now, resp, bank, snap>>

\* Lines 32-33: open(path, "r+") and json.load, which raises on a text that is
\* no JSON (caught at line 39: the call returns False).
WLoad(w) ==
    /\ pc[w] = "open"
    /\ IF file.kind = "array"
       THEN /\ snap' = [snap EXCEPT ![w] = file.recs]
            /\ pc' = [pc EXCEPT ![w] = "dump"]
       ELSE /\ pc' = [pc EXCEPT ![w] = "failed"]
            /\ UNCHANGED snap
    /\ UNCHANGED <<file, session, now, resp, bank>>

\* Lines 34-38 when the text reaches the file in one write: the call returns True.
WDump(w) ==
    /\ pc[w] = "dump"
    /\ file' = Overlay(file, Append(snap[w], ConcRow(w)))
    /\ pc' = [pc EXCEPT ![w] = "saved"]
    /\ UNCHANGED <<session, now, resp, bank, snap>>

\* Line 36 when the buffer is flushed before the text is complete: the file
\* holds the beginning of the new text.
WDumpBegin(w) ==
    /\ pc[w] = "dump"
    /\ file' = [kind |-> "corrupt", recs |-> <<>>, size |-> file.size]
    /\ pc' = [pc EXCEPT ![w] = "dumping"]
    /\ UNCHANGED <<session, now, resp, bank, snap>>

\* The rest of the text is written as the with block closes the file.
WDumpEnd(w) ==
    /\ pc[w] = "dumping"
    /\ file' = Overlay(file, Append(snap[w], ConcRow(w)))
    /\ pc' = [pc EXCEPT ![w] = "saved"]
    /\ UNCHANGED <<session, now, resp, bank, snap>>

\* Line 51 of get_leaderboard_data: with no file the result is built from [].
RCheck ==
    /\ pc[Reader] = "r_check"
    /\ IF file.kind = "missing"
       THEN /\ pc' = [pc EXCEPT ![Reader] = "done"]
            /\ snap' = [snap EXCEPT ![Reader] = file]
            /\ resp' = Response("view_leaderboards", "leaderboards_overview.html",
                                get_leaderboard_data(file, None), <<>>)
       ELSE /\ pc' = [pc EXCEPT ![Reader] = "r_load"]
            /\ UNCHANGED <<snap, resp>>
    /\ UNCHANGED <<file, session, now, bank>>

\* Lines 53-102: the file is read as it stands, and the result built from it.
RLoad ==
    /\ pc[Reader] = "r_load"
    /\ pc' = [pc EXCEPT ![Reader] = "done"]
    /\ snap' = [snap EXCEPT ![Reader] = file]
    /\ resp' = Response("view_leaderboards",
                        Rendered("leaderboards_overview.html", get_leaderboard_data(file, None)),
                        get_leaderboard_data(file, None), <<>>)
    /\ UNCHANGED <<file, session, now, bank>>

InitConc == /\ file \in {Missing, Array(<<LegacyRow>>)}
            /\ session = NoSession
            /\ now = 0
            /\ resp = NoResponse
            /\ bank = DefaultBank
            /\ pc = [p \in Writers \cup {Reader} |-> IF p = Reader THEN "r_check" ELSE "check"]
            /\ snap = [p \in Writers \cup {Reader} |-> <<>>]

NextConc == \/ \E w \in Writers :
                   \/ WCheck(w)
                   \/ WInitOpen(w)
                   \/ WInitWrite(w)
                   \/ WLoad(w)
                   \/ WDump(w)
                   \/ WDumpBegin(w)
                   \/ WDumpEnd(w)
            \/ RCheck
            \/ RLoad

SpecConc == InitConc /\ [][NextConc]_vars

\* C8: when every concurrent submission has returned and each reports
\* success, the store holds the record of each of them.
C8_NoLostUpdate ==
    (\A w \in Writers : pc[w] = "saved") =>
        /\ file.kind = "array"
        /\ \A w \in Writers : \E i \in 1..Len(file.recs) : file.recs[i] = ConcRow(w)

\* C9: what a leaderboard read parses is the store as a completed call left
\* it (no file, or a whole array), never a file that is truncated, partly
\* written or emptied for the moment.
C9_ReadsWholeStore ==
    pc[Reader] = "done" => snap[Reader].kind \in {"missing", "array"}

====
